---- MODULE Spec2Model ----
(***************************************************************************)
(* proflog: sitecustomize.py.  On SIGUSR1 the process dumps its call stack *)
(* as one line of consolidated source statements into a per-process file.  *)
(*                                                                         *)
(* Text is a sequence of one-character strings over the alphabet           *)
(*   "x" (identifier character), "(", ")", "#" (comment marker), " ".      *)
(* Line numbers and list indices keep Python's conventions: line numbers   *)
(* are 1-based, list indices 0-based, negative indices count from the end. *)
(***************************************************************************)
EXTENDS Integers, Sequences, FiniteSets, TLC

VARIABLES
    storage,      \* source files on disk: path -> [readable, lines (raw physical lines)]
    cache,        \* functools.lru_cache of read_file: entries, least recently used first
    reads,        \* path -> number of successful reads of the file from storage
    firstRead,    \* path -> the lines read_file returned the first time it succeeded
    last,         \* outcome of the last read_file / consolidate_multiline call
    STACKTRACE_EXTRA,            \* module globals, lines 9-15
    STACKTRACE_SIZE,
    STACKTRACE_DIR,
    STACKTRACE_FILE,
    STACKTRACE_PYTHON_PACKAGES,
    proc,         \* "import" (main() not yet run), "running", "exiting", "exited"
    sigHandler,   \* dump_stacktrace is the handler of SIGUSR1
    atexitCleanup,\* cleanup is registered with atexit
    outFile,      \* the output file: its name exists, its content, the handle's buffer
    cwd,          \* the working directory: "start" (as at import) or "other"
    hstack,       \* running invocations of dump_stacktrace, the interrupted ones first
    delivered,    \* number of signals delivered so far
    obs           \* what the host has observed of the handler and of cleanup

srcVars == <<storage, cache, reads, firstRead, last>>
confVars == <<STACKTRACE_EXTRA, STACKTRACE_SIZE, STACKTRACE_DIR,
              STACKTRACE_PYTHON_PACKAGES>>
dumpVars == <<STACKTRACE_FILE, proc, sigHandler, atexitCleanup, outFile, cwd,
              hstack, delivered, obs>>
vars == <<srcVars, confVars, dumpVars>>

----------------------------------------------------------------------------
(* Bounds of the model *)

MaxLines == 3      \* physical lines per source file
ExtraPaths == 1    \* distinct paths beyond the capacity of the cache

MaxDepth == 3      \* frames of the host's call chain at a signal
MaxSize == 2       \* largest configured PROFLOG_STACKTRACE_SIZE besides the default
MaxSignals == 2    \* signals delivered to the process
MaxCleanups == 2   \* invocations of cleanup

(* Program constants *)

DefaultSize == 9999

LruMaxSize == 128  \* functools.lru_cache used bare: the default maxsize

Placeholder == <<"<unknown>">>

----------------------------------------------------------------------------
(* Text helpers: str.strip, str.split("#")[0], list indexing *)

RECURSIVE LStrip(_)
LStrip(s) == IF s # <<>> /\ Head(s) = " " THEN LStrip(Tail(s)) ELSE s

RECURSIVE RStrip(_)
RStrip(s) ==
    IF s # <<>> /\ s[Len(s)] = " " THEN RStrip(SubSeq(s, 1, Len(s) - 1)) ELSE s

Strip(s) == RStrip(LStrip(s))

RECURSIVE BeforeHash(_)
BeforeHash(s) ==
    IF s = <<>> \/ Head(s) = "#" THEN <<>> ELSE <<Head(s)>> \o BeforeHash(Tail(s))

\* lst[i] with a 0-based, possibly negative, index; InRange is "no IndexError"
InRange(lst, i) == -Len(lst) <= i /\ i < Len(lst)
PyIndex(lst, i) == IF i >= 0 THEN lst[i + 1] ELSE lst[Len(lst) + i + 1]

----------------------------------------------------------------------------
(* parse_as_python: does "async def scope(): " + s parse?  On this         *)
(* alphabet the Python grammar accepts s exactly when the code before the  *)
(* first "#" is non-blank, its parentheses balance, and no identifier      *)
(* directly follows ")" or, across a space, another identifier.            *)

RECURSIVE Scan(_, _, _, _)
Scan(s, depth, prev, sp) ==
    IF s = <<>> \/ Head(s) = "#" THEN depth = 0 /\ prev # "none"
    ELSE IF Head(s) = " " THEN Scan(Tail(s), depth, prev, TRUE)
    ELSE IF Head(s) = "x" THEN
        IF prev = "close" \/ (prev = "id" /\ sp) THEN FALSE
        ELSE Scan(Tail(s), depth, "id", FALSE)
    ELSE IF Head(s) = "(" THEN Scan(Tail(s), depth + 1, "open", FALSE)
    ELSE IF Head(s) = ")" THEN
        IF depth = 0 THEN FALSE ELSE Scan(Tail(s), depth - 1, "close", FALSE)
    ELSE FALSE

ParseAsPython(s) == Scan(s, 0, "none", FALSE)

----------------------------------------------------------------------------
(* read_file behind functools.lru_cache *)

CacheIndex(c, p) == CHOOSE i \in 1..Len(c) : c[i].path = p
CacheHit(c, p) == \E i \in 1..Len(c) : c[i].path = p
Without(c, i) == SubSeq(c, 1, i - 1) \o SubSeq(c, i + 1, Len(c))

\* the body of read_file: open the file, strip every line
StripLines(f) == [i \in 1..Len(f) |-> Strip(f[i])]

\* room for one more entry: the least recently used entry goes when the cache is full
MakeRoom(c) == IF Len(c) >= LruMaxSize THEN Tail(c) ELSE c

\* One call read_file(p).  ioOk = FALSE: open()/readlines() raises.
\* Result: raised, the lines returned, the cache afterwards, and whether the
\* file was read from storage.
ReadFile(c, store, p, ioOk) ==
    IF CacheHit(c, p) THEN
        LET i == CacheIndex(c, p) IN
        [raised |-> FALSE, lines |-> c[i].lines,
         cache |-> Without(c, i) \o <<c[i]>>, read |-> FALSE]
    ELSE IF ~store[p].readable \/ ~ioOk THEN
        [raised |-> TRUE, lines |-> <<>>, cache |-> c, read |-> FALSE]
    ELSE
        LET ls == StripLines(store[p].lines) IN
        [raised |-> FALSE, lines |-> ls,
         cache |-> MakeRoom(c) \o <<[path |-> p, lines |-> ls]>>, read |-> TRUE]

----------------------------------------------------------------------------
(* consolidate_multiline *)

\* a loop that appends the next line with its comment
RECURSIVE ConsolidateLoopKeepsComment(_, _, _, _, _, _)
ConsolidateLoopKeepsComment(lines, original, lineno, line, calls, failAt) ==
    IF failAt = calls + 1 THEN
        [ret |-> Placeholder, calls |-> calls + 1, fault |-> "parse"]
    ELSE IF ParseAsPython(line) THEN
        [ret |-> line, calls |-> calls + 1, fault |-> "none"]
    ELSE IF lineno + 1 >= Len(lines) THEN
        [ret |-> PyIndex(lines, original), calls |-> calls + 1, fault |-> "none"]
    ELSE
        ConsolidateLoopKeepsComment(lines, original, lineno + 1,
                                    line \o PyIndex(lines, lineno + 1),
                                    calls + 1, failAt)

\* a loop that returns the accumulated buffer when the file is exhausted
RECURSIVE ConsolidateLoopReturnsBuffer(_, _, _, _, _, _)
ConsolidateLoopReturnsBuffer(lines, original, lineno, line, calls, failAt) ==
    IF failAt = calls + 1 THEN
        [ret |-> Placeholder, calls |-> calls + 1, fault |-> "parse"]
    ELSE IF ParseAsPython(line) THEN
        [ret |-> line, calls |-> calls + 1, fault |-> "none"]
    ELSE IF lineno + 1 >= Len(lines) THEN
        [ret |-> line, calls |-> calls + 1, fault |-> "none"]
    ELSE
        ConsolidateLoopReturnsBuffer(lines, original, lineno + 1,
                        line \o Strip(BeforeHash(PyIndex(lines, lineno + 1))),
                        calls + 1, failAt)

\* the while loop, entered with the 0-based lineno and the accumulated line;
\* calls counts the oracle calls made, failAt names the oracle call that
\* raises something other than SyntaxError (0: none does)
RECURSIVE ConsolidateLoop(_, _, _, _, _, _)
ConsolidateLoop(lines, original, lineno, line, calls, failAt) ==
    IF failAt = calls + 1 THEN
        [ret |-> Placeholder, calls |-> calls + 1, fault |-> "parse"]
    ELSE IF ParseAsPython(line) THEN
        [ret |-> line, calls |-> calls + 1, fault |-> "none"]
    ELSE IF lineno + 1 >= Len(lines) THEN
        [ret |-> PyIndex(lines, original), calls |-> calls + 1, fault |-> "none"]
    ELSE
        ConsolidateLoop(lines, original, lineno + 1,
                        line \o Strip(BeforeHash(PyIndex(lines, lineno + 1))),
                        calls + 1, failAt)

\* consolidate_multiline(file, lineno) given the outcome r of read_file(file)
ConsolidateMultiline(r, lineno, failAt) ==
    IF r.raised THEN [ret |-> Placeholder, calls |-> 0, fault |-> "read"]
    ELSE IF ~InRange(r.lines, lineno - 1) THEN
        [ret |-> Placeholder, calls |-> 0, fault |-> "none"]
    ELSE ConsolidateLoop(r.lines, lineno - 1, lineno - 1,
                         PyIndex(r.lines, lineno - 1), 0, failAt)

----------------------------------------------------------------------------
(* Source files the model draws from *)

RawLines ==
    { <<"x", "(">>,             \* x(        opens a call
      <<" ", "x", " ">>,        \*  x        an argument, with surrounding blanks
      <<")">>,                  \* )
      <<"x", " ", "#", ")">>,   \* x #)      code, then a comment
      <<")", " ", "#", "x">>,   \* ) #x
      <<"(", " ", "#">>,        \* ( #       opens, then a comment
      <<>> }                    \* a blank line

RECURSIVE SeqsUpTo(_, _)
SeqsUpTo(S, n) ==
    IF n = 0 THEN {<<>>}
    ELSE LET shorter == SeqsUpTo(S, n - 1) IN
         shorter \cup {Append(q, e) : q \in {t \in shorter : Len(t) = n - 1}, e \in S}

Files == SeqsUpTo(RawLines, MaxLines)

NoCall ==
    [op |-> "none", path |-> 0, lineno |-> 0, raised |-> FALSE, lines |-> <<>>,
     ret |-> <<>>, calls |-> 0, fault |-> "none"]

NeverRead == [known |-> FALSE, lines |-> <<>>]

\* the process-level state while only the source-text functions are exercised
NoObs == [returned |-> 0, escaped |-> FALSE, nested |-> FALSE,
          cleanups |-> 0, cleanupRaised |-> FALSE, assertFailed |-> FALSE, caught |-> 0]
NoOutFile == [exists |-> FALSE, content |-> <<>>, buffer |-> <<>>]

Idle ==
    /\ STACKTRACE_EXTRA = FALSE
    /\ STACKTRACE_SIZE = DefaultSize
    /\ STACKTRACE_DIR = [set |-> FALSE, value |-> <<>>]
    /\ STACKTRACE_PYTHON_PACKAGES = << <<>> >>
    /\ STACKTRACE_FILE = "None"
    /\ proc = "import"
    /\ sigHandler = FALSE
    /\ atexitCleanup = FALSE
    /\ outFile = NoOutFile
    /\ cwd = "start"
    /\ hstack = <<>>
    /\ delivered = 0
    /\ obs = NoObs

NoteRead(p, r) ==
    /\ cache' = r.cache
    /\ reads' = IF r.read THEN [reads EXCEPT ![p] = @ + 1] ELSE reads
    /\ firstRead' = IF ~r.raised /\ ~firstRead[p].known
                    THEN [firstRead EXCEPT ![p] = [known |-> TRUE, lines |-> r.lines]]
                    ELSE firstRead

----------------------------------------------------------------------------
(* Specification SpecConsolidate: calls of consolidate_multiline on one    *)
(* readable source file (path 1) and one missing file (path 2).            *)

ConsolidatePaths == {1, 2}

InitConsolidate ==
    /\ storage \in {[p \in ConsolidatePaths |->
                        IF p = 1 THEN [readable |-> TRUE, lines |-> f]
                        ELSE [readable |-> FALSE, lines |-> <<>>]] : f \in Files}
    /\ cache = <<>>
    /\ reads = [p \in ConsolidatePaths |-> 0]
    /\ firstRead = [p \in ConsolidatePaths |-> NeverRead]
    /\ last = NoCall
    /\ Idle

ConsolidateCall(p, lineno, ioOk, failAt) ==
    LET r == ReadFile(cache, storage, p, ioOk)
        c == ConsolidateMultiline(r, lineno, failAt)
    IN  /\ NoteRead(p, r)
        /\ last' = [op |-> "consolidate", path |-> p, lineno |-> lineno,
                    raised |-> FALSE, lines |-> r.lines,
                    ret |-> c.ret, calls |-> c.calls, fault |-> c.fault]
        /\ UNCHANGED <<storage, confVars, dumpVars>>

\* every line number on the readable file; the oracle raising at each of its
\* calls; the read failing; the missing file
NextConsolidate ==
    \/ \E lineno \in -1..(MaxLines + 1) : ConsolidateCall(1, lineno, TRUE, 0)
    \/ \E lineno \in 1..2, failAt \in 1..MaxLines :
            ConsolidateCall(1, lineno, TRUE, failAt)
    \/ \E lineno \in 0..1 : ConsolidateCall(1, lineno, FALSE, 0)
    \/ \E lineno \in 0..1 : ConsolidateCall(2, lineno, TRUE, 0)

SpecConsolidate == InitConsolidate /\ [][NextConsolidate]_vars

----------------------------------------------------------------------------
(* Specification SpecCache: calls of read_file over more distinct paths    *)
(* than the cache holds.  Paths are numbered in the order of their first   *)
(* use; path 1 is the one read again and modified on disk.                 *)

CachePaths == 1..(LruMaxSize + ExtraPaths)

FileV1 == << <<"x">> >>
FileV2 == << <<"x", "(", ")">> >>

InitCache ==
    /\ storage = [p \in CachePaths |-> [readable |-> TRUE, lines |-> FileV1]]
    /\ cache = <<>>
    /\ reads = [p \in CachePaths |-> 0]
    /\ firstRead = [p \in CachePaths |-> NeverRead]
    /\ last = NoCall
    /\ Idle

Fresh(p) == reads[p] = 0 /\ \A q \in CachePaths : q < p => reads[q] > 0

ReadFileCall(p, ioOk) ==
    /\ p = 1 \/ Fresh(p)
    /\ LET r == ReadFile(cache, storage, p, ioOk)
       IN  /\ NoteRead(p, r)
           /\ last' = [op |-> "read_file", path |-> p, lineno |-> 0,
                       raised |-> r.raised, lines |-> r.lines,
                       ret |-> <<>>, calls |-> 0, fault |-> "none"]
    /\ UNCHANGED <<storage, confVars, dumpVars>>

\* the host, or anyone, rewrites a source file on disk
ModifyFile(p) ==
    /\ p = 1
    /\ storage[p].lines = FileV1
    /\ storage' = [storage EXCEPT ![p].lines = FileV2]
    /\ UNCHANGED <<cache, reads, firstRead, last, confVars, dumpVars>>

NextCache ==
    \/ \E p \in CachePaths, ioOk \in BOOLEAN : ReadFileCall(p, ioOk)
    \/ \E p \in CachePaths : ModifyFile(p)

SpecCache == InitCache /\ [][NextCache]_vars

----------------------------------------------------------------------------
(* Configuration, lines 9-15 *)

\* bool(os.environ.get(..., "")): a string is true unless empty
Bool(s) == s # <<>>

\* str.split(",")
RECURSIVE BeforeComma(_)
BeforeComma(s) ==
    IF s = <<>> \/ Head(s) = "," THEN <<>> ELSE <<Head(s)>> \o BeforeComma(Tail(s))

RECURSIVE SplitComma(_)
SplitComma(s) ==
    LET first == BeforeComma(s) IN
    IF Len(first) = Len(s) THEN <<s>>
    ELSE <<first>> \o SplitComma(SubSeq(s, Len(first) + 2, Len(s)))

\* "if STACKTRACE_DIR": set in the environment and not empty
Truthy(d) == d.set /\ d.value # <<>>

DirChoices ==
    { [set |-> FALSE, value |-> <<>>],
      [set |-> TRUE, value |-> <<>>],
      [set |-> TRUE, value |-> <<"d">>],          \* a relative path
      [set |-> TRUE, value |-> <<"/", "d">>] }     \* an absolute path

\* a path is resolved against the working directory unless it is absolute
IsAbsolute(path) == path # <<>> /\ Head(path) = "/"

\* the name the file was opened under, STACKTRACE_DIR / pid, still names it
NamesOutFile(dir, wd) == IsAbsolute(dir.value) \/ wd = "start"

PackagesEnv ==
    { <<>>,                      \* unset or empty: split gives [""]
      <<"a">>,
      <<"a", "b", ",", "b">>,    \* "ab,b"
      <<"c">>,                   \* matches no module of the model
      <<"b", ",">> }             \* "b,": split gives ["b", ""]

SizeChoices == (-1 .. MaxSize) \cup {DefaultSize}

----------------------------------------------------------------------------
(* Call stacks *)

\* a frame: module name (f_globals["__name__"]), file, line number (0: None)
FrameA == [mod |-> <<"a">>, file |-> 1, lineno |-> 1]
FrameAB == [mod |-> <<"a", "b">>, file |-> 1, lineno |-> 2]
FrameB == [mod |-> <<"b">>, file |-> 1, lineno |-> 0]
FrameNoName == [mod |-> <<>>, file |-> 1, lineno |-> 3]   \* globals without __name__
HostFrames == {FrameA, FrameAB, FrameB, FrameNoName}

\* the frame of dump_stacktrace itself, interrupted by a further signal
HandlerFrame == [mod |-> <<"s">>, file |-> 2, lineno |-> 1]

\* call chains, the outermost frame first, the interrupted frame last
HostChains == SeqsUpTo(HostFrames, MaxDepth) \ {<<>>}

\* the source files of the frames: file 1 is host code, file 2 sitecustomize.py
DumpStorage ==
    [p \in {1, 2} |->
        IF p = 1 THEN [readable |-> TRUE,
                       lines |-> << <<"x", "(">>, <<" ", "x", " ">>,
                                    <<")", " ", "#", "x">> >>]
        ELSE [readable |-> TRUE, lines |-> << <<"x", "(", ")">> >>]]

----------------------------------------------------------------------------
(* dump_stacktrace: the pure parts *)

StartsWith(s, p) == Len(p) <= Len(s) /\ SubSeq(s, 1, Len(p)) = p
AnyPrefix(pkgs, mod) == \E k \in 1..Len(pkgs) : StartsWith(mod, pkgs[k])

\* a walk that stops at the first frame that does NOT match
RECURSIVE WalkFromStopsOnMismatch(_, _, _)
WalkFromStopsOnMismatch(chain, i, pkgs) ==
    IF i > 1 /\ AnyPrefix(pkgs, chain[i].mod)
    THEN WalkFromStopsOnMismatch(chain, i - 1, pkgs) ELSE i

\* lines 50-57: from frame i of the chain outward while the frame has an
\* f_back and its module matches no prefix; the index of the frame left in "frame"
RECURSIVE WalkFrom(_, _, _)
WalkFrom(chain, i, pkgs) ==
    IF i > 1 /\ ~AnyPrefix(pkgs, chain[i].mod) THEN WalkFrom(chain, i - 1, pkgs) ELSE i

\* traceback.extract_stack(frame): the chain from the outermost frame to frame
ExtractStack(chain, i) == SubSeq(chain, 1, i)

\* lst[::-1]
Reverse(lst) == [k \in 1..Len(lst) |-> lst[Len(lst) + 1 - k]]

\* lst[:k], k of either sign
PySliceTo(lst, k) ==
    IF k >= 0 THEN SubSeq(lst, 1, IF k < Len(lst) THEN k ELSE Len(lst))
    ELSE SubSeq(lst, 1, IF Len(lst) + k > 0 THEN Len(lst) + k ELSE 0)

\* stacktrace[::-1][:STACKTRACE_SIZE]
Rendered(stacktrace, size) == PySliceTo(Reverse(stacktrace), size)

\* "{Path(f.filename).name}:{f.lineno}"
Tag(f) == <<ToString(f.file), ":", IF f.lineno = 0 THEN "None" ELSE ToString(f.lineno)>>

Label(f, text, extra) == IF extra THEN Tag(f) \o <<" ">> \o text ELSE text

\* the generator of lines 62-63 / 67-68: one consolidate_multiline per frame,
\* in order, each through the cache; rf is the failure injected into them
RECURSIVE RenderFrames(_, _, _, _, _)
RenderFrames(frames, c, store, extra, rf) ==
    IF frames = <<>> THEN [labels |-> <<>>, cache |-> c]
    ELSE LET f == Head(frames)
             r == ReadFile(c, store, f.file, rf # "read")
             t == ConsolidateMultiline(r, f.lineno, IF rf = "parse" THEN 1 ELSE 0)
             rest == RenderFrames(Tail(frames), r.cache, store, extra, rf)
         IN  [labels |-> <<Label(f, t.ret, extra)>> \o rest.labels,
              cache |-> rest.cache]

\* " <-  ".join(labels)
RECURSIVE Join(_)
Join(labels) ==
    IF labels = <<>> THEN <<>>
    ELSE IF Len(labels) = 1 THEN labels[1]
    ELSE labels[1] \o <<"<-">> \o Join(Tail(labels))

\* print(txt, end="") : the text without its end of line
WriteNoNewline(id, txt) == <<[inv |-> id, part |-> "txt"]>>

\* print(txt, file=STACKTRACE_FILE): what one call hands to the file object,
\* the text and the end of line
WriteLine(id, txt) == <<[inv |-> id, part |-> "txt"], [inv |-> id, part |-> "end"]>>

\* "except Exception:"
ExceptException(kind) == kind = "Exception"

\* line 75, a bare "except:": every exception is caught
BareExcept(kind) == kind \in {"Exception", "BaseException"}

\* line 81, Path.unlink(missing_ok=True)
Unlink(exists) == [raised |-> FALSE, exists |-> FALSE]

----------------------------------------------------------------------------
(* The process: main(), signals, the handler step by step, exit *)

Top == hstack[Len(hstack)]
Pop == SubSeq(hstack, 1, Len(hstack) - 1)
SetTop(h) == [hstack EXCEPT ![Len(hstack)] = h]

NewInvocation(id, chain) ==
    [id |-> id, pc |-> "walk", chain |-> chain, frame |-> Len(chain),
     stacktrace |-> <<>>, rendered |-> <<>>, txt |-> <<>>]

\* main() that installs the handler and the cleanup whatever the configuration
MainRegistersAlways(fail) ==
    /\ proc = "import"
    /\ proc' = "running"
    /\ IF Truthy(STACKTRACE_DIR) /\ fail = "none"
       THEN /\ STACKTRACE_FILE' = "open"
            /\ outFile' = [exists |-> TRUE, content |-> <<>>, buffer |-> <<>>]
       ELSE UNCHANGED <<STACKTRACE_FILE, outFile>>
    /\ sigHandler' = TRUE
    /\ atexitCleanup' = TRUE
    /\ UNCHANGED <<srcVars, confVars, cwd, hstack, delivered, obs>>

\* lines 84-91.  fail: "mkdir" or "open" raises (the exception leaves main)
Main(fail) ==
    /\ proc = "import"
    /\ proc' = "running"
    /\ IF Truthy(STACKTRACE_DIR) /\ fail = "none"
       THEN /\ STACKTRACE_FILE' = "open"
            /\ outFile' = [exists |-> TRUE, content |-> <<>>, buffer |-> <<>>]
            /\ sigHandler' = TRUE
            /\ atexitCleanup' = TRUE
       ELSE UNCHANGED <<STACKTRACE_FILE, outFile, sigHandler, atexitCleanup>>
    /\ UNCHANGED <<srcVars, confVars, cwd, hstack, delivered, obs>>

\* SIGUSR1 while host code runs with the call chain "chain"
DeliverToHost(chain) ==
    /\ sigHandler
    /\ proc \in {"running", "exiting"}
    /\ hstack = <<>>
    /\ hstack' = <<NewInvocation(delivered + 1, chain)>>
    /\ delivered' = delivered + 1
    /\ UNCHANGED <<srcVars, confVars, STACKTRACE_FILE, proc, sigHandler,
                   atexitCleanup, outFile, cwd, obs>>

\* SIGUSR1 while dump_stacktrace runs: the handler is entered again, on top of
\* the interrupted invocation
DeliverNested ==
    /\ sigHandler
    /\ hstack # <<>>
    /\ hstack' = Append(hstack, NewInvocation(delivered + 1,
                                              Append(Top.chain, HandlerFrame)))
    /\ delivered' = delivered + 1
    /\ obs' = [obs EXCEPT !.nested = TRUE]
    /\ UNCHANGED <<srcVars, confVars, STACKTRACE_FILE, proc, sigHandler,
                   atexitCleanup, outFile, cwd>>

\* the invocation on top ends: normally (after the print, or after the except
\* clause swallowed "kind"), or with the exception leaving the handler
Left(o, kind) ==
    IF kind = "ok" THEN [o EXCEPT !.returned = @ + 1]
    ELSE IF BareExcept(kind) THEN [o EXCEPT !.returned = @ + 1, !.caught = 1]
    ELSE [o EXCEPT !.escaped = TRUE]

Leave(kind) == hstack' = Pop /\ obs' = Left(obs, kind)

Running(pc) == hstack # <<>> /\ Top.pc = pc

\* lines 50-57
StepWalk(o) ==
    /\ Running("walk")
    /\ IF o = "ok"
       THEN /\ hstack' = SetTop([Top EXCEPT
                    !.frame = WalkFrom(Top.chain, Len(Top.chain),
                                       STACKTRACE_PYTHON_PACKAGES),
                    !.pc = "extract"])
            /\ UNCHANGED obs
       ELSE Leave(o)
    /\ UNCHANGED <<srcVars, confVars, STACKTRACE_FILE, proc, sigHandler,
                   atexitCleanup, outFile, cwd, delivered>>

\* line 58
StepExtract(o) ==
    /\ Running("extract")
    /\ IF o = "ok"
       THEN /\ hstack' = SetTop([Top EXCEPT
                    !.stacktrace = ExtractStack(Top.chain, Top.frame),
                    !.pc = "assert"])
            /\ UNCHANGED obs
       ELSE Leave(o)
    /\ UNCHANGED <<srcVars, confVars, STACKTRACE_FILE, proc, sigHandler,
                   atexitCleanup, outFile, cwd, delivered>>

\* line 59
StepAssert(o) ==
    /\ Running("assert")
    /\ IF o # "ok" THEN Leave(o)
       ELSE IF STACKTRACE_FILE = "None"
       THEN /\ hstack' = Pop      \* AssertionError
            /\ obs' = Left([obs EXCEPT !.assertFailed = TRUE], "Exception")
       ELSE /\ hstack' = SetTop([Top EXCEPT !.pc = "render"])
            /\ UNCHANGED obs
    /\ UNCHANGED <<srcVars, confVars, STACKTRACE_FILE, proc, sigHandler,
                   atexitCleanup, outFile, cwd, delivered>>

\* lines 60-69
StepRender(o, rf) ==
    /\ Running("render")
    /\ IF o = "ok"
       THEN LET frames == Rendered(Top.stacktrace, STACKTRACE_SIZE)
                r == RenderFrames(frames, cache, storage, STACKTRACE_EXTRA, rf)
            IN  /\ hstack' = SetTop([Top EXCEPT !.rendered = frames,
                                                !.txt = Join(r.labels),
                                                !.pc = "print"])
                /\ cache' = r.cache
                /\ UNCHANGED obs
       ELSE Leave(o) /\ UNCHANGED cache
    /\ UNCHANGED <<storage, reads, firstRead, last, confVars, STACKTRACE_FILE, proc,
                   sigHandler, atexitCleanup, outFile, cwd, delivered>>

\* lines 70-74, the write of the text and its end of line
StepPrint(o) ==
    /\ Running("print")
    /\ IF o = "ok"
       THEN /\ outFile' = [outFile EXCEPT !.buffer = @ \o WriteLine(Top.id, Top.txt)]
            /\ hstack' = SetTop([Top EXCEPT !.pc = "flush"])
            /\ UNCHANGED obs
       ELSE Leave(o) /\ UNCHANGED outFile
    /\ UNCHANGED <<srcVars, confVars, STACKTRACE_FILE, proc, sigHandler,
                   atexitCleanup, cwd, delivered>>

\* lines 70-74, flush=True; then the handler returns
StepFlush(o) ==
    /\ Running("flush")
    /\ IF o = "ok"
       THEN outFile' = [outFile EXCEPT !.content = @ \o outFile.buffer,
                                       !.buffer = <<>>]
       ELSE UNCHANGED outFile
    /\ Leave(o)
    /\ UNCHANGED <<srcVars, confVars, STACKTRACE_FILE, proc, sigHandler,
                   atexitCleanup, cwd, delivered>>

\* the host reaches its normal end: the atexit callbacks are about to run
BeginExit ==
    /\ proc = "running"
    /\ hstack = <<>>
    /\ proc' = "exiting"
    /\ UNCHANGED <<srcVars, confVars, STACKTRACE_FILE, sigHandler, atexitCleanup,
                   outFile, cwd, hstack, delivered, obs>>

\* lines 79-81: run by atexit, and possibly called again
Cleanup ==
    /\ atexitCleanup
    /\ proc = "exiting"
    /\ hstack = <<>>
    /\ obs.cleanups < MaxCleanups
    /\ IF STACKTRACE_FILE = "None"
       THEN /\ obs' = [obs EXCEPT !.cleanups = @ + 1, !.assertFailed = TRUE,
                                  !.cleanupRaised = TRUE]
            /\ UNCHANGED outFile
       ELSE IF NamesOutFile(STACKTRACE_DIR, cwd)
       THEN LET u == Unlink(outFile.exists)
            IN  /\ outFile' = [outFile EXCEPT !.exists = u.exists]
                /\ obs' = [obs EXCEPT !.cleanups = @ + 1,
                                      !.cleanupRaised = @ \/ u.raised]
       ELSE \* the name is looked up in the other directory, where no such file is
            LET u == Unlink(FALSE)
            IN  /\ UNCHANGED outFile
                /\ obs' = [obs EXCEPT !.cleanups = @ + 1,
                                      !.cleanupRaised = @ \/ u.raised]
    /\ UNCHANGED <<srcVars, confVars, STACKTRACE_FILE, proc, sigHandler,
                   atexitCleanup, cwd, hstack, delivered>>

\* the host changes its working directory (os.chdir)
Chdir ==
    /\ proc = "running"
    /\ hstack = <<>>
    /\ cwd = "start"
    /\ cwd' = "other"
    /\ UNCHANGED <<srcVars, confVars, STACKTRACE_FILE, proc, sigHandler,
                   atexitCleanup, outFile, hstack, delivered, obs>>

\* someone else removes the output file
ExternalRemove ==
    /\ outFile.exists
    /\ outFile' = [outFile EXCEPT !.exists = FALSE]
    /\ UNCHANGED <<srcVars, confVars, STACKTRACE_FILE, proc, sigHandler,
                   atexitCleanup, cwd, hstack, delivered, obs>>

\* the interpreter is gone
Finish ==
    /\ proc = "exiting"
    /\ hstack = <<>>
    /\ atexitCleanup => obs.cleanups >= 1
    /\ proc' = "exited"
    /\ UNCHANGED <<srcVars, confVars, STACKTRACE_FILE, sigHandler, atexitCleanup,
                   outFile, cwd, hstack, delivered, obs>>

InitProcess ==
    /\ storage = DumpStorage
    /\ cache = <<>>
    /\ reads = [p \in {1, 2} |-> 0]
    /\ firstRead = [p \in {1, 2} |-> NeverRead]
    /\ last = NoCall
    /\ STACKTRACE_FILE = "None"
    /\ proc = "import"
    /\ sigHandler = FALSE
    /\ atexitCleanup = FALSE
    /\ outFile = NoOutFile
    /\ cwd = "start"
    /\ hstack = <<>>
    /\ delivered = 0
    /\ obs = NoObs

----------------------------------------------------------------------------
(* Specification SpecTrace: one signal, every configuration of the size    *)
(* and of the tracked packages, every host call chain; nothing fails.      *)

InitTrace ==
    /\ InitProcess
    /\ STACKTRACE_EXTRA \in {Bool(e) : e \in {<<>>, <<"1">>}}
    /\ STACKTRACE_SIZE \in SizeChoices
    /\ STACKTRACE_DIR = [set |-> TRUE, value |-> <<"d">>]
    /\ STACKTRACE_PYTHON_PACKAGES \in {SplitComma(e) : e \in PackagesEnv}

NextTrace ==
    \/ Main("none")
    \/ \E chain \in HostChains : delivered = 0 /\ DeliverToHost(chain)
    \/ StepWalk("ok")
    \/ StepExtract("ok")
    \/ StepAssert("ok")
    \/ StepRender("ok", "none")
    \/ StepPrint("ok")
    \/ StepFlush("ok")

SpecTrace == InitTrace /\ [][NextTrace]_vars

----------------------------------------------------------------------------
(* Specification SpecSignals: the life of the process.  Every step of the  *)
(* handler may raise, signals arrive while host code or the handler runs.  *)

Outcomes == {"ok", "Exception", "BaseException"}
RenderFaults == {"none", "read", "parse"}
SignalChains == {<<FrameA>>, <<FrameA, FrameB>>}

InitSignals ==
    /\ InitProcess
    /\ STACKTRACE_EXTRA \in {Bool(e) : e \in {<<>>, <<"1">>}}
    /\ STACKTRACE_SIZE \in {1, DefaultSize}
    /\ STACKTRACE_DIR \in DirChoices
    /\ STACKTRACE_PYTHON_PACKAGES \in {SplitComma(e) : e \in {<<>>, <<"c">>}}

NextSignals ==
    \/ \E fail \in {"none", "mkdir", "open"} : Main(fail)
    \/ \E chain \in SignalChains : delivered < MaxSignals /\ DeliverToHost(chain)
    \/ delivered < MaxSignals /\ DeliverNested
    \/ \E o \in Outcomes : StepWalk(o)
    \/ \E o \in Outcomes : StepExtract(o)
    \/ \E o \in Outcomes : StepAssert(o)
    \/ \E o \in Outcomes, rf \in RenderFaults : StepRender(o, rf)
    \/ \E o \in Outcomes : StepPrint(o)
    \/ \E o \in Outcomes : StepFlush(o)
    \/ Chdir
    \/ BeginExit
    \/ Cleanup
    \/ ExternalRemove
    \/ Finish

SpecSignals == InitSignals /\ [][NextSignals]_vars

----------------------------------------------------------------------------
(* Claims about consolidate_multiline (SpecConsolidate) *)

\* the trimmed lines of the file the last call named, as they are on disk
DiskLines == StripLines(storage[last.path].lines)

\* the window n..m of the 1-based lines ls: line n, then each of the lines
\* n+1..m without its comment
RECURSIVE WindowText(_, _, _)
WindowText(ls, n, m) ==
    IF m <= n THEN ls[n] ELSE WindowText(ls, n, m - 1) \o Strip(BeforeHash(ls[m]))

AcceptedEnds(ls, n) == {m \in n..Len(ls) : ParseAsPython(WindowText(ls, n, m))}
Least(S) == CHOOSE m \in S : \A k \in S : m <= k
HasHash(s) == \E i \in 1..Len(s) : s[i] = "#"

\* the last call was consolidate_multiline on a readable file, with a line
\* number that indexes one of its lines, and nothing raised inside it
ValidCall ==
    /\ last.op = "consolidate"
    /\ storage[last.path].readable
    /\ last.fault = "none"
    /\ last.lineno \in 1..Len(DiskLines)

\* C4 as stated: when some window n..m is accepted, the result is the text of
\* the smallest accepted window, is accepted by the oracle, and holds no
\* comment text of any line of the window.
C4_NoCommentOfAnyWindowLine ==
    (ValidCall /\ AcceptedEnds(DiskLines, last.lineno) # {}) =>
        /\ last.ret = WindowText(DiskLines, last.lineno,
                                 Least(AcceptedEnds(DiskLines, last.lineno)))
        /\ ParseAsPython(last.ret)
        /\ ~HasHash(last.ret)

\* C4 amended: as above, but the comment-free part is the text appended from
\* the lines n+1..m; a comment on line n itself is returned with the line.
C4_SmallestAcceptedWindow ==
    (ValidCall /\ AcceptedEnds(DiskLines, last.lineno) # {}) =>
        /\ last.ret = WindowText(DiskLines, last.lineno,
                                 Least(AcceptedEnds(DiskLines, last.lineno)))
        /\ ParseAsPython(last.ret)
        /\ SubSeq(last.ret, 1, Len(DiskLines[last.lineno])) = DiskLines[last.lineno]
        /\ ~HasHash(SubSeq(last.ret, Len(DiskLines[last.lineno]) + 1, Len(last.ret)))

\* a statement over three physical lines, a comment on a later line removed
C4_Witness ==
    /\ ValidCall
    /\ AcceptedEnds(DiskLines, last.lineno) # {}
    /\ Least(AcceptedEnds(DiskLines, last.lineno)) = last.lineno + 2
    /\ \E m \in (last.lineno + 1)..(last.lineno + 2) : HasHash(DiskLines[m])
    /\ last.ret = <<"x", "(", "x", ")">>

\* C5: when no window n..m up to the end of the file is accepted, the
\* result is exactly the trimmed line n, not the placeholder; and the loop
\* makes at most (number of lines - n + 1) oracle calls.
C5_FallbackToOriginalLine ==
    /\ (ValidCall /\ AcceptedEnds(DiskLines, last.lineno) = {}) =>
          /\ last.ret = DiskLines[last.lineno]
          /\ last.ret # Placeholder
    /\ (last.op = "consolidate" /\ storage[last.path].readable
            /\ last.lineno \in 1..Len(DiskLines)) =>
          last.calls <= Len(DiskLines) - last.lineno + 1

\* the file is exhausted after the window grew over at least two more lines
C5_Witness ==
    /\ ValidCall
    /\ AcceptedEnds(DiskLines, last.lineno) = {}
    /\ last.lineno + 2 <= Len(DiskLines)
    /\ last.calls = Len(DiskLines) - last.lineno + 1
    /\ last.ret = DiskLines[last.lineno]

\* C9: for a line number outside 1..len(lines), and for an unreadable file,
\* the result is the placeholder.
C9_PlaceholderOutsideFile ==
    (last.op = "consolidate"
        /\ (~storage[last.path].readable \/ last.lineno \notin 1..Len(DiskLines)))
    => last.ret = Placeholder

----------------------------------------------------------------------------
(* Claims about read_file (SpecCache) *)

\* C6: a path is read from storage at most once, and every later call for
\* it returns the content of its first successful read.
C6_CachedContentNeverEvicted ==
    /\ \A p \in DOMAIN reads : reads[p] <= 1
    /\ (last.op = "read_file" /\ ~last.raised) =>
           last.lines = firstRead[last.path].lines

----------------------------------------------------------------------------
(* Claims about the filter walk and the truncation (SpecTrace) *)

Invocations == {hstack[k] : k \in 1..Len(hstack)}
IsPrefix(p, t) == Len(p) <= Len(t) /\ \A k \in 1..Len(p) : t[k] = p[k]
Matching(chain) ==
    {i \in 1..Len(chain) :
        \E k \in 1..Len(STACKTRACE_PYTHON_PACKAGES) :
            IsPrefix(STACKTRACE_PYTHON_PACKAGES[k], chain[i].mod)}
Greatest(S) == CHOOSE m \in S : \A k \in S : k <= m
StopFrame(chain) == IF Matching(chain) = {} THEN 1 ELSE Greatest(Matching(chain))

\* C2: the walk stops at the innermost frame whose module starts with a
\* configured prefix, or at the outermost frame when none does; the extracted
\* trace is the whole chain from the outermost frame to the stopping frame;
\* with the empty configuration the walk stops at the signal-delivery frame.
C2_FilterWalkStopsAtInnermostMatch ==
    \A h \in Invocations :
        /\ h.pc # "walk" =>
              /\ h.frame = StopFrame(h.chain)
              /\ STACKTRACE_PYTHON_PACKAGES = << <<>> >> => h.frame = Len(h.chain)
        /\ h.pc \notin {"walk", "extract"} =>
              h.stacktrace = [k \in 1..StopFrame(h.chain) |-> h.chain[k]]

\* the innermost frame does not match, an outer one does, and a frame that
\* does not match is part of the extracted trace
C2_Witness ==
    \E h \in Invocations :
        /\ h.pc = "render"
        /\ Len(h.chain) = MaxDepth
        /\ h.frame < Len(h.chain)
        /\ h.frame \in Matching(h.chain)
        /\ \E k \in 1..Len(h.stacktrace) : k \notin Matching(h.chain)

\* C3: the dump renders at most STACKTRACE_SIZE frames, and when
\* STACKTRACE_SIZE is smaller than the number N of extracted frames, exactly
\* STACKTRACE_SIZE frames: those nearest the stopping frame, most recent first.
C3_SizeBoundsRenderedFrames ==
    \A h \in Invocations :
        h.pc \in {"print", "flush"} =>
            LET n == Len(h.stacktrace) IN
            /\ Len(h.rendered) <= STACKTRACE_SIZE
            /\ STACKTRACE_SIZE < n =>
                  /\ Len(h.rendered) = STACKTRACE_SIZE
                  /\ \A j \in 1..Len(h.rendered) :
                        h.rendered[j] = h.stacktrace[n + 1 - j]

----------------------------------------------------------------------------
(* Claims about the process (SpecSignals) *)

\* C1: no failure at any step of dump_stacktrace leaves the handler: every
\* invocation that has ended returned normally to the interrupted code.
C1_NothingEscapesTheHandler ==
    /\ ~obs.escaped
    /\ obs.returned + Len(hstack) = delivered

\* a failure was swallowed and the handler returned
C1_Witness == obs.caught = 1 /\ obs.returned = MaxSignals /\ hstack = <<>>

\* the lines of the output file, written or still in the handle's buffer
Written == outFile.content \o outFile.buffer

\* whole lines, each the text and the end of line of one invocation, in the
\* order of the deliveries
OrderedLines(w) ==
    /\ Len(w) % 2 = 0
    /\ \A k \in 1..Len(w) :
          /\ w[k].part = (IF k % 2 = 1 THEN "txt" ELSE "end")
          /\ k % 2 = 0 => w[k].inv = w[k - 1].inv
          /\ k > 2 => w[k - 2].inv < w[k].inv

C8_CleanupLeavesNoFile ==
    /\ obs.cleanups >= 1 => (~outFile.exists /\ ~obs.cleanupRaised)
    /\ (proc = "exited" /\ atexitCleanup) => ~outFile.exists

====
